---- MODULE Spec2Model ----
(***************************************************************************)
(* A model of awwwards_scraper.py: the two extraction functions, the       *)
(* crawl loop of scrape_awwwards and the entry point main.                 *)
(*                                                                         *)
(* Strings are modelled as sequences of tokens.  An href is a sequence     *)
(* over Tokens; the token "/sites/" is the marker substring, "?" is the    *)
(* query separator and BASE_URL, in first position, makes the href an      *)
(* absolute URL.  Optional[int] values are sequences of length 0 or 1.     *)
(***************************************************************************)
EXTENDS Integers, Sequences, FiniteSets, TLC

\* ---------------------------------------------------------------- bounds
MaxPage == 2
MaxAnchors == 3
MaxCap == 2
MaxHrefLen == 2
ExtractMaxAnchors == 2

\* ------------------------------------------------------------- constants
BASE_URL == "https://www.awwwards.com"
MARKER == "/sites/"
QUERY == "?"
None == "None"
VISIT_SITE == "visit site"

Tokens == {BASE_URL, MARKER, "/a", QUERY}

\* ------------------------------------------------------ generic helpers
SeqsUpTo(S, n) == UNION {[1..k -> S] : k \in 0..n}

Range(s) == {s[i] : i \in 1..Len(s)}

Min(S) == CHOOSE x \in S : \A y \in S : x <= y

\* Optional[int]: <<>> is None, <<n>> is the integer n.
Truthy(opt) == opt # <<>> /\ opt[1] # 0

\* ------------------------------------------------- extract_site_links
\* `"/sites/" in href`, and the substring test of the CSS selector.
Contains(h, tok) == \E i \in 1..Len(h) : h[i] = tok

\* href.split("?")[0]
SplitQuery(h) ==
    LET idx == {i \in 1..Len(h) : h[i] = QUERY}
    IN  IF idx = {} THEN h ELSE SubSeq(h, 1, Min(idx) - 1)

\* urljoin(BASE_URL, x): an absolute URL is kept, the empty reference gives
\* the base, anything else is resolved against the base.
urljoin(base, h) ==
    IF h = <<>> THEN <<base>>
    ELSE IF h[1] = BASE_URL THEN h
    ELSE <<base>> \o h

\* An anchor is [has_href, href]; anchor.get("href") is None when absent.
Anchor(h) == [has_href |-> TRUE, href |-> h]
NoHrefAnchor == [has_href |-> FALSE, href |-> <<>>]

\* soup.select('a[href*="/sites/"]') and the guard of line 35.
Selected(a) == a.has_href /\ a.href # <<>> /\ Contains(a.href, MARKER)

RECURSIVE CollectLinks(_)
CollectLinks(anchors) ==
    IF anchors = <<>> THEN <<>>
    ELSE IF Selected(Head(anchors))
         THEN <<urljoin(BASE_URL, SplitQuery(Head(anchors).href))>>
              \o CollectLinks(Tail(anchors))
         ELSE CollectLinks(Tail(anchors))

\* Mutant: the duplicates are kept.
KeepAll(links, seen) == links

\* the seen / unique_links loop
RECURSIVE Unique(_, _)
Unique(links, seen) ==
    IF links = <<>> THEN <<>>
    ELSE IF Head(links) \in seen
         THEN Unique(Tail(links), seen)
         ELSE <<Head(links)>> \o Unique(Tail(links), seen \cup {Head(links)})

extract_site_links(anchors) == Unique(CollectLinks(anchors), {})

\* ------------------------------------------------- extract_visit_site
\* text.strip(): leading and trailing whitespace tokens are dropped.
RECURSIVE LStrip(_)
LStrip(t) == IF t # <<>> /\ Head(t) = " " THEN LStrip(Tail(t)) ELSE t

RECURSIVE RStrip(_)
RStrip(t) ==
    IF t # <<>> /\ t[Len(t)] = " " THEN RStrip(SubSeq(t, 1, Len(t) - 1)) ELSE t

Strip(t) == RStrip(LStrip(t))

\* text.lower(), token by token.
LowerToken(c) == IF c \in {"Visit Site", "VISIT SITE"} THEN VISIT_SITE ELSE c

Lower(t) == [i \in 1..Len(t) |-> LowerToken(t[i])]

\* lambda text: text and text.strip().lower() == "visit site"
IsVisitSite(t) == t # <<>> /\ Lower(Strip(t)) = <<VISIT_SITE>>

\* soup.find(...): the first qualifying anchor; button.get("href") or None.
extract_visit_site(doc) ==
    LET hits == {i \in 1..Len(doc) : IsVisitSite(doc[i].text)}
    IN  IF hits = {} THEN None
        ELSE IF doc[Min(hits)].has_href THEN doc[Min(hits)].href ELSE None

TextAnchor(t, h) == [text |-> t, has_href |-> TRUE, href |-> h]
TextAnchorNoHref(t) == [text |-> t, has_href |-> FALSE, href |-> None]

\* The detail pages a fetch may return.
DetailDocs ==
    { <<>>,
      <<TextAnchor(<<" ", "Visit Site", " ">>, "v1")>>,
      <<TextAnchor(<<"x">>, "v1"), TextAnchor(<<"VISIT SITE">>, "v2"),
        TextAnchor(<<"visit site">>, "v1")>>,
      <<TextAnchorNoHref(<<"visit site">>)>> }

\* ------------------------------------------------------- crawl inputs
\* The anchors a listing page may hold.
CrawlAnchors ==
    { Anchor(<<MARKER, "/a">>),
      Anchor(<<MARKER, "/a", QUERY, "/a">>),
      Anchor(<<"/a", MARKER>>),
      Anchor(<<"/a", QUERY, MARKER>>) }

Listings == SeqsUpTo(CrawlAnchors, MaxAnchors)

CrawlURLs == {urljoin(BASE_URL, SplitQuery(a.href)) : a \in CrawlAnchors}

DelayValues == {-1, 0, 1}

OptInts(S) == {<<>>} \cup {<<n>> : n \in S}

\* ------------------------------------------------------ the result dict
\* A dict is a sequence of [key, value] in insertion order.
Keys(d) == [i \in 1..Len(d) |-> d[i].key]

Has(d, k) == \E i \in 1..Len(d) : d[i].key = k

Get(d, k) == d[CHOOSE i \in 1..Len(d) : d[i].key = k].value

\* Mutant: a new key is put in front.
DictPrepend(d, k, v) == <<[key |-> k, value |-> v]>> \o d

\* d[k] = v: an existing key keeps its place and takes the new value.
DictSet(d, k, v) ==
    IF Has(d, k)
    THEN [i \in 1..Len(d) |-> IF d[i].key = k THEN [key |-> k, value |-> v] ELSE d[i]]
    ELSE Append(d, [key |-> k, value |-> v])

\* --------------------------------------------------------------- state
VARIABLES
    pc,             \* position: main, page_loop, site_loop, returned, exit, raised
    start_page,     \* args.start_page
    end_page,       \* args.end_page, Optional[int]
    delay,          \* args.delay
    max_sites,      \* args.max_sites, Optional[int]
    pages,          \* the page numbers the outer loop has still to take
    links,          \* the site URLs the inner loop has still to take
    results,        \* the result dict
    returned,       \* <<>> or <<the dict scrape_awwwards returned>>
    emitted,        \* <<>> or <<the dict main dumped as JSON>>
    mainReturn,     \* <<>> or <<the value main returned>>
    exc,            \* the exception that left scrape_awwwards, or None
    listingFetches, \* the page numbers of the listing GETs sent, in order
    detailFetches,  \* per URL, the number of detail GETs sent
    stores,         \* per URL, the number of assignments results[url] = ...
    sleeps,         \* the number of completed time.sleep(delay) calls
    discovered,     \* the URLs the fetched listings held, in first-discovery order
    failedDetail,   \* the URLs whose detail GET raised RequestException
    listingFailed,  \* a listing GET raised RequestException
    dedupHits,      \* the number of inner-loop iterations left by `continue`
    anchorsIn,      \* extract_site_links alone: its input
    linksOut        \* extract_site_links alone: its output

crawlVars ==
    <<pc, start_page, end_page, delay, max_sites, pages, links, results, returned,
      emitted, mainReturn, exc, listingFetches, detailFetches, stores, sleeps,
      discovered, failedDetail, listingFailed, dedupHits>>

vars == <<crawlVars, anchorsIn, linksOut>>

\* end_page = args.end_page if args.end_page is not None else args.start_page
EndPage == IF end_page # <<>> THEN end_page[1] ELSE start_page

\* range(a, b + 1)
PageRange(a, b) == [i \in 1..(b - a + 1) |-> a + i - 1]

\* Mutant: page 0 is accepted.
InvalidRangeLoose(s, e) == s < 0 \/ e < s

\* args.start_page < 1 or end_page < args.start_page
InvalidRange(s, e) == s < 1 \/ e < s

\* Mutant: the dedup check is dropped.
NeverSeen(res, url) == FALSE

\* site_url in results
SeenBefore(res, url) == Has(res, url)

\* Mutant: the sleep is unconditional.
AlwaysSleep(d) == TRUE

\* if delay:
ShouldSleep(d) == d # 0

\* time.sleep(secs) raises ValueError for a negative length
SleepRaises(d) == d < 0

\* Mutant: the cap is tested with > instead of >=.
CapReachedLate(ms, res) == Truthy(ms) /\ Len(res) > ms[1]

\* Mutant: the cap is never tested.
CapIgnored(ms, res) == FALSE

\* max_sites and len(results) >= max_sites
CapReached(ms, res) == Truthy(ms) /\ Len(res) >= ms[1]

CrawlStart ==
    /\ pages = <<>> /\ links = <<>> /\ results = <<>>
    /\ returned = <<>> /\ emitted = <<>> /\ mainReturn = <<>>
    /\ exc = None
    /\ listingFetches = <<>>
    /\ detailFetches = [u \in CrawlURLs |-> 0]
    /\ stores = [u \in CrawlURLs |-> 0]
    /\ sleeps = 0
    /\ discovered = <<>>
    /\ failedDetail = {}
    /\ listingFailed = FALSE
    /\ dedupHits = 0

Init ==
    /\ pc = "main"
    /\ start_page \in 0..MaxPage
    /\ end_page \in OptInts(0..MaxPage)
    /\ delay \in DelayValues
    /\ max_sites \in OptInts(-1..MaxCap)
    /\ CrawlStart
    /\ anchorsIn = <<>> /\ linksOut = <<>>

history == <<listingFetches, detailFetches, stores, sleeps, discovered, failedDetail,
             listingFailed, dedupHits>>
args == <<start_page, end_page, delay, max_sites>>
extractVars == <<anchorsIn, linksOut>>

\* ---------------------------------------------------------------- main
MainInvalid ==
    /\ pc = "main"
    /\ InvalidRange(start_page, EndPage)
    /\ mainReturn' = <<1>>
    /\ pc' = "exit"
    /\ UNCHANGED <<args, pages, links, results, returned, emitted, exc, history,
                   extractVars>>

MainStart ==
    /\ pc = "main"
    /\ ~InvalidRange(start_page, EndPage)
    /\ pages' = PageRange(start_page, EndPage)
    /\ pc' = "page_loop"
    /\ UNCHANGED <<args, links, results, returned, emitted, mainReturn, exc, history,
                   extractVars>>

Output ==
    /\ pc = "returned"
    /\ emitted' = returned
    /\ mainReturn' = <<0>>
    /\ pc' = "exit"
    /\ UNCHANGED <<args, pages, links, results, returned, exc, history, extractVars>>

\* ------------------------------------------------------ scrape_awwwards
\* The URLs of ls not yet in seen, in order.
NewlyDiscovered(ls, seen) == SelectSeq(ls, LAMBDA u : u \notin Range(seen))

ListingFetch ==
    /\ pc = "page_loop"
    /\ pages # <<>>
    /\ \E html \in Listings :
         LET found == extract_site_links(html)
         IN  /\ links' = found
             /\ discovered' = discovered \o NewlyDiscovered(found, discovered)
    /\ listingFetches' = Append(listingFetches, Head(pages))
    /\ pages' = Tail(pages)
    /\ pc' = "site_loop"
    /\ UNCHANGED <<args, results, returned, emitted, mainReturn, exc, detailFetches,
                   stores, sleeps, failedDetail, listingFailed, dedupHits, extractVars>>

\* Mutant: the failure of a listing fetch is swallowed and the page skipped.
ListingFetchFailsSkipsPage ==
    /\ pc = "page_loop"
    /\ pages # <<>>
    /\ listingFetches' = Append(listingFetches, Head(pages))
    /\ listingFailed' = TRUE
    /\ pages' = Tail(pages)
    /\ UNCHANGED <<pc, args, links, results, returned, emitted, mainReturn, exc,
                   detailFetches, stores, sleeps, discovered, failedDetail, dedupHits,
                   extractVars>>

ListingFetchFails ==
    /\ pc = "page_loop"
    /\ pages # <<>>
    /\ listingFetches' = Append(listingFetches, Head(pages))
    /\ listingFailed' = TRUE
    /\ exc' = "RequestException"
    /\ pc' = "raised"
    /\ UNCHANGED <<args, pages, links, results, returned, emitted, mainReturn,
                   detailFetches, stores, sleeps, discovered, failedDetail, dedupHits,
                   extractVars>>

ReturnResults ==
    /\ pc = "page_loop"
    /\ pages = <<>>
    /\ returned' = <<results>>
    /\ pc' = "returned"
    /\ UNCHANGED <<args, pages, links, results, emitted, mainReturn, exc, history,
                   extractVars>>

SitesDone ==
    /\ pc = "site_loop"
    /\ links = <<>>
    /\ pc' = "page_loop"
    /\ UNCHANGED <<args, pages, links, results, returned, emitted, mainReturn, exc,
                   history, extractVars>>

SiteSkip ==
    /\ pc = "site_loop"
    /\ links # <<>>
    /\ SeenBefore(results, Head(links))
    /\ links' = Tail(links)
    /\ dedupHits' = dedupHits + 1
    /\ UNCHANGED <<pc, args, pages, results, returned, emitted, mainReturn, exc,
                   listingFetches, detailFetches, stores, sleeps, discovered,
                   failedDetail, listingFailed, extractVars>>

\* Lines 72/74 to 78: the store, the pacing sleep and the cap check.
StoreAndPace(url, value) ==
    LET stored == DictSet(results, url, value)
    IN  /\ results' = stored
        /\ stores' = [stores EXCEPT ![url] = @ + 1]
        /\ IF ShouldSleep(delay) /\ SleepRaises(delay)
           THEN /\ exc' = "ValueError"
                /\ pc' = "raised"
                /\ UNCHANGED <<sleeps, links, returned>>
           ELSE /\ sleeps' = IF ShouldSleep(delay) THEN sleeps + 1 ELSE sleeps
                /\ exc' = exc
                /\ IF CapReached(max_sites, stored)
                   THEN /\ returned' = <<stored>>
                        /\ pc' = "returned"
                        /\ links' = links
                   ELSE /\ links' = Tail(links)
                        /\ UNCHANGED <<pc, returned>>

SiteFetchOk ==
    /\ pc = "site_loop"
    /\ links # <<>>
    /\ ~SeenBefore(results, Head(links))
    /\ detailFetches' = [detailFetches EXCEPT ![Head(links)] = @ + 1]
    /\ \E doc \in DetailDocs : StoreAndPace(Head(links), extract_visit_site(doc))
    /\ UNCHANGED <<args, pages, emitted, mainReturn, listingFetches, discovered,
                   failedDetail, listingFailed, dedupHits, extractVars>>

\* Mutant: the failure of a detail fetch is not caught.
SiteFetchFailsPropagates ==
    /\ pc = "site_loop"
    /\ links # <<>>
    /\ ~SeenBefore(results, Head(links))
    /\ detailFetches' = [detailFetches EXCEPT ![Head(links)] = @ + 1]
    /\ failedDetail' = failedDetail \cup {Head(links)}
    /\ exc' = "RequestException"
    /\ pc' = "raised"
    /\ UNCHANGED <<args, pages, links, results, returned, emitted, mainReturn,
                   listingFetches, stores, sleeps, discovered, listingFailed, dedupHits,
                   extractVars>>

SiteFetchFails ==
    /\ pc = "site_loop"
    /\ links # <<>>
    /\ ~SeenBefore(results, Head(links))
    /\ detailFetches' = [detailFetches EXCEPT ![Head(links)] = @ + 1]
    /\ failedDetail' = failedDetail \cup {Head(links)}
    /\ StoreAndPace(Head(links), None)
    /\ UNCHANGED <<args, pages, emitted, mainReturn, listingFetches, discovered,
                   listingFailed, dedupHits, extractVars>>

Next ==
    \/ MainInvalid
    \/ MainStart
    \/ ListingFetch
    \/ ListingFetchFails
    \/ SitesDone
    \/ SiteSkip
    \/ SiteFetchOk
    \/ SiteFetchFails
    \/ ReturnResults
    \/ Output

Spec == Init /\ [][Next]_vars

\* ------------------------------------------- extract_site_links alone
ExtractAnchors ==
    {NoHrefAnchor} \cup {Anchor(h) : h \in SeqsUpTo(Tokens, MaxHrefLen)}

InitExtract ==
    /\ pc = "extract"
    /\ anchorsIn \in SeqsUpTo(ExtractAnchors, ExtractMaxAnchors)
    /\ linksOut = <<>>
    /\ start_page = 1 /\ end_page = <<>> /\ delay = 0 /\ max_sites = <<>>
    /\ CrawlStart

Extract ==
    /\ pc = "extract"
    /\ linksOut' = extract_site_links(anchorsIn)
    /\ pc' = "extracted"
    /\ UNCHANGED <<args, pages, links, results, returned, emitted, mainReturn, exc,
                   history, anchorsIn>>

NextExtract == Extract

SpecExtract == InitExtract /\ [][NextExtract]_vars

\* ============================================================== claims
IsPrefix(a, b) == Len(a) <= Len(b) /\ \A i \in 1..Len(a) : a[i] = b[i]

NoDuplicates(s) == \A i, j \in 1..Len(s) : s[i] = s[j] => i = j

RECURSIVE SumOver(_, _)
SumOver(f, S) ==
    IF S = {} THEN 0
    ELSE LET x == CHOOSE y \in S : TRUE IN f[x] + SumOver(f, S \ {x})

TotalStores == SumOver(stores, CrawlURLs)

TotalDetailFetches == SumOver(detailFetches, CrawlURLs)

\* scrape_awwwards has been called: main accepted the page range.
ScrapeCalled == pc \notin {"main", "extract", "extracted"} /\ mainReturn # <<1>>

FetchedAtMostOnce ==
    \A u \in CrawlURLs :
        /\ detailFetches[u] <= 1
        /\ Has(results, u) <=> detailFetches[u] = 1

\* A crawl of two pages that met an already fetched URL again and ended.
FetchedAtMostOnceWitness ==
    /\ pc = "exit" /\ mainReturn = <<0>>
    /\ Len(listingFetches) = 2
    /\ dedupHits >= 1
    /\ Len(results) >= 2

\* C3: a failed detail fetch stores None under its URL and is not propagated;
\* the crawl goes on through every remaining URL and page as after a success:
\* between pages every discovered URL is a key, inside a page every discovered
\* URL is a key or still to come, and a returned dict holds every discovered
\* URL unless the cap ended the crawl.
FailureIsolation ==
    /\ \A u \in failedDetail : Has(results, u) /\ Get(results, u) = None
    /\ exc = "RequestException" => listingFailed
    /\ IsPrefix(Keys(results), discovered)
    /\ pc = "page_loop" => Keys(results) = discovered
    /\ pc = "site_loop" =>
         \A u \in Range(discovered) : Has(results, u) \/ u \in Range(links)
    /\ returned # <<>> =>
         \/ Keys(returned[1]) = discovered
         \/ /\ max_sites # <<>> /\ max_sites[1] # 0
            /\ Len(returned[1]) >= max_sites[1]

\* A crawl that ended normally after a failed detail fetch, having fetched
\* another URL after the failed one and taken a second page.
FailureIsolationWitness ==
    /\ pc = "exit" /\ mainReturn = <<0>>
    /\ Len(listingFetches) = 2
    /\ \E i, j \in 1..Len(results) :
         /\ i < j
         /\ results[i].key \in failedDetail /\ results[i].value = None
         /\ results[j].key \notin failedDetail /\ results[j].value # None

\* C4: a failed listing fetch leaves scrape_awwwards as an exception: nothing
\* is fetched after it, no dict is returned and nothing is written.
ListingFailureAborts ==
    /\ [](listingFailed =>
            /\ pc = "raised" /\ exc = "RequestException"
            /\ returned = <<>> /\ emitted = <<>> /\ mainReturn = <<>>)
    /\ [][listingFailed => UNCHANGED <<listingFetches, detailFetches, results>>]_vars

\* The second listing fetch failed after the first page had given entries.
ListingFailureAbortsWitness ==
    /\ listingFailed
    /\ Len(listingFetches) = 2
    /\ Len(results) >= 1

CapIsPositive == max_sites # <<>> /\ max_sites[1] >= 1

Pacing == sleeps = IF delay > 0 THEN TotalStores ELSE 0

\* A paced crawl with a failed fetch, a successful one and a dedup hit.
PacingWitness ==
    /\ pc = "exit" /\ mainReturn = <<0>>
    /\ delay > 0
    /\ sleeps = 2
    /\ dedupHits >= 1
    /\ failedDetail # {}
    /\ \E i \in 1..Len(results) : results[i].key \notin failedDetail

\* C7: every key is stored exactly once, the keys are distinct and in
\* first-discovery order, and no step removes, moves or rewrites an entry.
EntryLifecycle ==
    /\ [](/\ \A u \in CrawlURLs :
               /\ stores[u] <= 1
               /\ Has(results, u) <=> stores[u] = 1
          /\ NoDuplicates(Keys(results))
          /\ IsPrefix(Keys(results), discovered))
    /\ [][IsPrefix(results, results')]_vars

\* Three entries from two pages, the later page repeating an earlier URL.
EntryLifecycleWitness ==
    /\ pc = "exit" /\ mainReturn = <<0>>
    /\ Len(results) = 3
    /\ Len(listingFetches) = 2
    /\ dedupHits >= 1
    /\ results[1].value # results[2].value

RangeInvalid == start_page < 1 \/ (end_page # <<>> /\ end_page[1] < start_page)

NoNetworkActivity == listingFetches = <<>> /\ TotalDetailFetches = 0

\* C8 as stated: an invalid range ends main with 1, no fetch and no output;
\* every other run ends with 0.
MainExitCodes ==
    pc \in {"exit", "raised"} =>
        IF RangeInvalid
        THEN mainReturn = <<1>> /\ NoNetworkActivity /\ emitted = <<>>
        ELSE mainReturn = <<0>>

\* C8 amended: an invalid range ends main with 1, no fetch and no output; a
\* valid range ends with 0 and the output written when the crawl returns, and
\* with no return value and no output when the crawl raises.
MainExitCodesAmended ==
    /\ RangeInvalid => NoNetworkActivity /\ emitted = <<>> /\ pc \in {"main", "exit"}
    /\ pc \in {"exit", "raised"} =>
         IF RangeInvalid
         THEN mainReturn = <<1>> /\ pc = "exit"
         ELSE IF exc = None
              THEN pc = "exit" /\ mainReturn = <<0>> /\ returned # <<>>
                   /\ emitted = returned
              ELSE pc = "raised" /\ mainReturn = <<>> /\ emitted = <<>>

\* main has refused an end page below a start page of at least 1.
MainExitCodesWitness ==
    /\ pc = "exit" /\ mainReturn = <<1>>
    /\ start_page >= 1 /\ end_page # <<>> /\ end_page[1] < start_page

\* The anchors extract_site_links selects, and what each is normalised to.
MatchingIdx ==
    {i \in 1..Len(anchorsIn) :
        anchorsIn[i].has_href /\ Contains(anchorsIn[i].href, MARKER)}

Norm(i) == urljoin(BASE_URL, SplitQuery(anchorsIn[i].href))

FirstIdx(u) == Min({i \in MatchingIdx : Norm(i) = u})

\* h1 and h2 are the same up to their first "?".
SameBeforeQuery(h1, h2) ==
    \E k \in 0..Len(h1) :
        /\ k <= Len(h2)
        /\ SubSeq(h1, 1, k) = SubSeq(h2, 1, k)
        /\ \A i \in 1..k : h1[i] # QUERY
        /\ k = Len(h1) \/ h1[k + 1] = QUERY
        /\ k = Len(h2) \/ h2[k + 1] = QUERY

ExtractOnlyMarked ==
    pc = "extracted" => \A k \in 1..Len(linksOut) : Contains(linksOut[k], MARKER)

====
